---------------------------- MODULE Spec2Model ----------------------------
(***************************************************************************)
(* A model of gmprocess.streamcollection: the duplicate detector           *)
(* (are_duplicates), the preference resolver (choose_preferred), the       *)
(* dedup phase (__handle_duplicates), the grouping engine                  *)
(* (__group_by_net_sta_inst, split_station), the constructor of           *)
(* StreamCollection that runs them in sequence, the colocation resolver    *)
(* (select_colocated), the list methods and the methods that return a      *)
(* Collection (copy, select, append, +).                                   *)
(*                                                                         *)
(* Trace objects live in a heap (object id -> record), so that "returns    *)
(* tr1 or tr2" is about object identity while Python's == on traces        *)
(* (obspy Trace.__eq__: equal stats and data) is equality of the stats     *)
(* records.  Strings that the code slices or splits are sequences of       *)
(* their parts: a channel code is the sequence of its characters, a tag    *)
(* the sequence of its "_"-separated parts.  Coordinates are positions on  *)
(* a line, in units of one metre, so the geodesic distance is the          *)
(* absolute difference; a coordinate may also be None or NaN.              *)
(***************************************************************************)
EXTENDS Integers, Sequences, FiniteSets, TLC

\* Bounds of the model.
MaxTraces == 3
MaxPos == 2
MaxCalls == 2
MaxPairTraces == 4

VARIABLES
    heap,       \* trace objects: id -> [stats, parameters]
    input,      \* the constructor's `streams` argument
    streams,    \* self.streams
    config,     \* the constructor's keyword arguments
    pc,         \* position in StreamCollection.__init__, or "call"
    err,        \* the exception the last phase or method raised, "" if none
    call,       \* the last function or method call and what it returned
    log,        \* the duplicates logged as removed, each with the trace kept
    before,     \* heap and self.streams as the last phase or method found them
    calls,      \* the number of method calls on the constructed Collection
    returned    \* the Collection the last copy, select, append or + returned

vars == <<heap, input, streams, config, pc, err, call, log, before, calls,
          returned>>

----------------------------------------------------------------------------
\* Program constants.

NETWORKS_USING_LOCATION == {"RE"}

REV_PROCESS_LEVELS(label) ==
    CASE label = "raw counts" -> "V0"
      [] label = "uncorrected physical units" -> "V1"
      [] label = "corrected physical units" -> "V2"
      [] label = "derived time series" -> "V3"

NON_FREE == {"building", "bridge", "dam", "borehole", "hole", "crest",
             "toe", "foundation", "body", "roof", "floor"}

\* UTCDateTime(0), in seconds since the epoch.
EpochZero == 0

----------------------------------------------------------------------------
\* Python helpers.

\* range(1, n+1) as a set.
Indices(s) == 1..Len(s)

\* x in list
In(x, s) == \E i \in Indices(s) : s[i] = x

\* list.index(x): the first position of x (0-based), defined when x is in s.
IndexOf(x, s) == (CHOOSE i \in Indices(s) : s[i] = x /\ \A j \in 1..(i-1) : s[j] # x) - 1

\* The empty tag "" has one part, the empty string: "".split("_") == [""].
EmptyTag == <<"">>

\* What a module-level function call produced.
Return(v) == [kind |-> "return", value |-> v, exc |-> ""]
Raise(e) == [kind |-> "raise", value |-> <<>>, exc |-> e]
\* Python's None, as a returned value.
None == <<"None", 0>>
\* A reference to the trace object i.
Ref(i) == <<"trace", i>>

----------------------------------------------------------------------------
\* StationTrace accessors (h is the heap, t a trace id).

TraceId(h, t) ==
    <<h[t].stats.network, h[t].stats.station,
      h[t].stats.location, h[t].stats.channel>>

\* StationTrace.free_field: structure_type is the sequence of its lower-case
\* words; re.search finds a non-free word in it.
free_field(h, t) ==
    ~\E i \in 1..Len(h[t].stats.structure_type) :
        h[t].stats.structure_type[i] \in NON_FREE

\* Trace.__eq__ of two trace objects: equal stats (and data).
TraceEq(h, t1, t2) == h[t1].stats = h[t2].stats

\* gps2dist_azimuth(...)[0].  A coordinate is [valid, latitude]: valid is
\* "ok", "None" or "NaN".  None coordinates make the call raise, NaN
\* coordinates make it return NaN, which compares False with everything.
HasNone(h, t1, t2) ==
    h[t1].stats.coordinates.valid = "None" \/ h[t2].stats.coordinates.valid = "None"
HasNaN(h, t1, t2) ==
    h[t1].stats.coordinates.valid = "NaN" \/ h[t2].stats.coordinates.valid = "NaN"
Abs(x) == IF x < 0 THEN -x ELSE x
Distance(h, t1, t2) ==
    Abs(h[t1].stats.coordinates.latitude - h[t2].stats.coordinates.latitude)

----------------------------------------------------------------------------
\* are_duplicates(tr1, tr2, max_dist_tolerance)

AreDupMutNoIdShortcut(h, tr1, tr2, max_dist_tolerance) ==
    IF HasNone(h, tr1, tr2) THEN Raise("TypeError")
    ELSE IF /\ h[tr1].stats.station = h[tr2].stats.station
            /\ h[tr1].stats.location = h[tr2].stats.location
            /\ h[tr1].stats.channel = h[tr2].stats.channel
            /\ ~HasNaN(h, tr1, tr2)
            /\ Distance(h, tr1, tr2) < max_dist_tolerance
         THEN Return(TRUE)
         ELSE Return(FALSE)

AreDupMutInclusive(h, tr1, tr2, max_dist_tolerance) ==
    IF TraceId(h, tr1) = TraceId(h, tr2) THEN Return(TRUE)
    ELSE IF HasNone(h, tr1, tr2) THEN Raise("TypeError")
    ELSE IF /\ h[tr1].stats.station = h[tr2].stats.station
            /\ h[tr1].stats.location = h[tr2].stats.location
            /\ h[tr1].stats.channel = h[tr2].stats.channel
            /\ ~HasNaN(h, tr1, tr2)
            /\ Distance(h, tr1, tr2) <= max_dist_tolerance
         THEN Return(TRUE)
         ELSE Return(FALSE)

AreDupMutNoneIsApart(h, tr1, tr2, max_dist_tolerance) ==
    IF TraceId(h, tr1) = TraceId(h, tr2) THEN Return(TRUE)
    ELSE IF /\ h[tr1].stats.station = h[tr2].stats.station
            /\ h[tr1].stats.location = h[tr2].stats.location
            /\ h[tr1].stats.channel = h[tr2].stats.channel
            /\ ~HasNone(h, tr1, tr2)
            /\ ~HasNaN(h, tr1, tr2)
            /\ Distance(h, tr1, tr2) < max_dist_tolerance
         THEN Return(TRUE)
         ELSE Return(FALSE)

are_duplicates(h, tr1, tr2, max_dist_tolerance) ==
    IF TraceId(h, tr1) = TraceId(h, tr2) THEN Return(TRUE)
    ELSE IF HasNone(h, tr1, tr2) THEN Raise("TypeError")
    ELSE IF /\ h[tr1].stats.station = h[tr2].stats.station
            /\ h[tr1].stats.location = h[tr2].stats.location
            /\ h[tr1].stats.channel = h[tr2].stats.channel
            /\ ~HasNaN(h, tr1, tr2)
            /\ Distance(h, tr1, tr2) < max_dist_tolerance
         THEN Return(TRUE)
         ELSE Return(FALSE)

----------------------------------------------------------------------------
\* choose_preferred(tr1, tr2, process_level_preference, format_preference)

LaterStagesMutNoRate(h, tr1, tr2) ==
    IF h[tr1].stats.starttime = EpochZero /\ h[tr2].stats.starttime # EpochZero
    THEN Return(Ref(tr2))
    ELSE IF h[tr1].stats.starttime # EpochZero /\ h[tr2].stats.starttime = EpochZero
    THEN Return(Ref(tr1))
    ELSE IF h[tr2].stats.npts > h[tr1].stats.npts THEN Return(Ref(tr2))
    ELSE Return(Ref(tr1))

LaterStagesMutNoSentinel(h, tr1, tr2) ==
    IF h[tr1].stats.npts > h[tr2].stats.npts THEN Return(Ref(tr1))
    ELSE IF h[tr2].stats.npts > h[tr1].stats.npts THEN Return(Ref(tr2))
    ELSE IF h[tr2].stats.sampling_rate > h[tr1].stats.sampling_rate
    THEN Return(Ref(tr2))
    ELSE Return(Ref(tr1))

LaterStagesMutTieSecond(h, tr1, tr2) ==
    IF h[tr1].stats.starttime = EpochZero /\ h[tr2].stats.starttime # EpochZero
    THEN Return(Ref(tr2))
    ELSE IF h[tr1].stats.starttime # EpochZero /\ h[tr2].stats.starttime = EpochZero
    THEN Return(Ref(tr1))
    ELSE IF h[tr1].stats.npts > h[tr2].stats.npts THEN Return(Ref(tr1))
    ELSE IF h[tr2].stats.npts > h[tr1].stats.npts THEN Return(Ref(tr2))
    ELSE IF h[tr2].stats.sampling_rate >= h[tr1].stats.sampling_rate
    THEN Return(Ref(tr2))
    ELSE Return(Ref(tr1))

\* Lines 772-788: start-time sentinel, sample count, sampling rate.
LaterStages(h, tr1, tr2) ==
    IF h[tr1].stats.starttime = EpochZero /\ h[tr2].stats.starttime # EpochZero
    THEN Return(Ref(tr2))
    ELSE IF h[tr1].stats.starttime # EpochZero /\ h[tr2].stats.starttime = EpochZero
    THEN Return(Ref(tr1))
    ELSE IF h[tr1].stats.npts > h[tr2].stats.npts THEN Return(Ref(tr1))
    ELSE IF h[tr2].stats.npts > h[tr1].stats.npts THEN Return(Ref(tr2))
    ELSE IF h[tr2].stats.sampling_rate > h[tr1].stats.sampling_rate
    THEN Return(Ref(tr2))
    ELSE Return(Ref(tr1))

\* Lines 760-788: the branch taken when the process-level indices are equal.
\* When a source format is missing from format_preference the function
\* reaches its end without a return statement: it returns None.
FormatStage(h, tr1, tr2, format_preference) ==
    IF /\ In(h[tr1].stats.source_format, format_preference)
       /\ In(h[tr2].stats.source_format, format_preference)
    THEN LET tr1_form_pref == IndexOf(h[tr1].stats.source_format, format_preference)
             tr2_form_pref == IndexOf(h[tr2].stats.source_format, format_preference)
         IN  IF tr1_form_pref < tr2_form_pref THEN Return(Ref(tr1))
             ELSE IF tr1_form_pref > tr2_form_pref THEN Return(Ref(tr2))
             ELSE LaterStages(h, tr1, tr2)
    ELSE Return(None)

ChooseMutUnlistedLast(h, tr1, tr2, process_level_preference, format_preference) ==
    LET Rank(t) == IF In(REV_PROCESS_LEVELS(h[t].stats.process_level),
                         process_level_preference)
                   THEN IndexOf(REV_PROCESS_LEVELS(h[t].stats.process_level),
                                process_level_preference)
                   ELSE Len(process_level_preference)
    IN  IF Rank(tr1) < Rank(tr2) THEN Return(Ref(tr1))
        ELSE IF Rank(tr1) > Rank(tr2) THEN Return(Ref(tr2))
        ELSE FormatStage(h, tr1, tr2, format_preference)

ChooseMutHigherIndex(h, tr1, tr2, process_level_preference, format_preference) ==
    LET l1 == REV_PROCESS_LEVELS(h[tr1].stats.process_level)
        l2 == REV_PROCESS_LEVELS(h[tr2].stats.process_level)
    IN  IF ~In(l1, process_level_preference) \/ ~In(l2, process_level_preference)
        THEN Raise("ValueError")
        ELSE LET tr1_pref == IndexOf(l1, process_level_preference)
                 tr2_pref == IndexOf(l2, process_level_preference)
             IN  IF tr1_pref > tr2_pref THEN Return(Ref(tr1))
                 ELSE IF tr1_pref < tr2_pref THEN Return(Ref(tr2))
                 ELSE FormatStage(h, tr1, tr2, format_preference)

choose_preferred(h, tr1, tr2, process_level_preference, format_preference) ==
    LET l1 == REV_PROCESS_LEVELS(h[tr1].stats.process_level)
        l2 == REV_PROCESS_LEVELS(h[tr2].stats.process_level)
    IN  IF ~In(l1, process_level_preference) \/ ~In(l2, process_level_preference)
        THEN Raise("ValueError")
        ELSE LET tr1_pref == IndexOf(l1, process_level_preference)
                 tr2_pref == IndexOf(l2, process_level_preference)
             IN  IF tr1_pref < tr2_pref THEN Return(Ref(tr1))
                 ELSE IF tr1_pref > tr2_pref THEN Return(Ref(tr2))
                 ELSE FormatStage(h, tr1, tr2, format_preference)

----------------------------------------------------------------------------
\* StationStream.  A stream is [type, traces, has_tag, tag, parameters]:
\* has_tag is hasattr(stream, 'tag'), parameters a dict as a set of
\* <<key, value>> pairs.

StationStream(traces) ==
    [type |-> "StationStream", traces |-> traces, has_tag |-> FALSE,
     tag |-> EmptyTag, parameters |-> {}]

\* channel[0:2]
Inst(channel) == SubSeq(channel, 1, 2)

\* StationStream.get_id(): the canonical identifier of the group, from the
\* identity fields its traces share.
get_id(h, st) ==
    <<h[st.traces[1]].stats.network, h[st.traces[1]].stats.station,
      Inst(h[st.traces[1]].stats.channel)>>

\* dict[key] = value, on a dict kept as a set of <<key, value>> pairs.
DictSet(d, key, value) == {p \in d : p[1] # key} \cup {<<key, value>>}
DictHas(d, key) == \E p \in d : p[1] = key
DictGet(d, key) == (CHOOSE p \in d : p[1] = key)[2]

----------------------------------------------------------------------------
\* gather_stream_parameters(streams): returns the dict of stream parameters
\* and stamps each stream's tag into its traces' stats.

RECURSIVE StampTag(_, _, _, _)
StampTag(h, traces, k, tag) ==
    IF k > Len(traces) THEN h
    ELSE StampTag([h EXCEPT ![traces[k]].stats.tag = tag], traces, k + 1, tag)

RECURSIVE GatherLoop(_, _, _, _)
GatherLoop(h, sts, k, stream_params) ==
    IF k > Len(sts) THEN [stream_params |-> stream_params, heap |-> h]
    ELSE LET stream == sts[k]
             params == IF Cardinality(stream.parameters) > 0
                       THEN DictSet(stream_params, get_id(h, stream), stream.parameters)
                       ELSE stream_params
             tag == IF stream.has_tag THEN stream.tag ELSE EmptyTag
         IN  GatherLoop(StampTag(h, stream.traces, 1, tag), sts, k + 1, params)

gather_stream_parameters(h, sts) == GatherLoop(h, sts, 1, {})

\* insert_stream_parameters(streams, stream_params)
InsertOne(h, st, stream_params) ==
    IF Len(st.traces) > 0
    THEN LET sid == get_id(h, st)
             st1 == IF DictHas(stream_params, sid)
                    THEN [st EXCEPT !.parameters = DictGet(stream_params, sid)]
                    ELSE st
         IN  IF h[st.traces[1]].stats.tag # EmptyTag
             THEN [st1 EXCEPT !.has_tag = TRUE, !.tag = h[st.traces[1]].stats.tag]
             ELSE st1
    ELSE st

insert_stream_parameters(h, sts, stream_params) ==
    [k \in 1..Len(sts) |-> InsertOne(h, sts[k], stream_params)]

\* for st in self.streams: for tr in st: traces.append(tr)
RECURSIVE Flatten(_, _)
Flatten(sts, k) ==
    IF k > Len(sts) THEN <<>> ELSE sts[k].traces \o Flatten(sts, k + 1)

----------------------------------------------------------------------------
\* StreamCollection.__handle_duplicates

\* Lines 586-590: the first kept trace that tr_to_add duplicates.
RECURSIVE FindDuplicate(_, _, _, _, _)
FindDuplicate(h, tr_to_add, preferred_traces, k, tol) ==
    IF k > Len(preferred_traces) THEN [kind |-> "none", idx |-> 0, exc |-> ""]
    ELSE LET r == are_duplicates(h, tr_to_add, preferred_traces[k], tol)
         IN  IF r.kind = "raise" THEN [kind |-> "raise", idx |-> 0, exc |-> r.exc]
             ELSE IF r.value THEN [kind |-> "found", idx |-> k, exc |-> ""]
             ELSE FindDuplicate(h, tr_to_add, preferred_traces, k + 1, tol)

\* list.remove(x): drops the first element that == x.
ListRemove(h, s, x) ==
    LET i == CHOOSE i \in Indices(s) :
                 /\ TraceEq(h, s[i], x)
                 /\ \A j \in 1..(i - 1) : ~TraceEq(h, s[j], x)
    IN  SubSeq(s, 1, i - 1) \o SubSeq(s, i + 1, Len(s))

ResultEqMutNever(h, r, tr) == FALSE

\* choose_preferred(...) == tr_to_add, with Trace.__eq__ (None is not a Trace).
ResultEqTrace(h, r, tr) == r.value # None /\ TraceEq(h, r.value[2], tr)

\* Lines 585-609: the loop over the flattened traces.  removed is what
\* logging.info has been given so far, one entry per resolved pair.
RECURSIVE DedupLoop(_, _, _, _, _, _)
DedupLoop(h, traces, k, preferred_traces, removed, cfg) ==
    IF k > Len(traces)
    THEN [kind |-> "return", preferred |-> preferred_traces, exc |-> "",
          log |-> removed]
    ELSE LET tr_to_add == traces[k]
             f == FindDuplicate(h, tr_to_add, preferred_traces, 1,
                                cfg.max_dist_tolerance)
         IN  IF f.kind = "raise"
             THEN [kind |-> "raise", preferred |-> preferred_traces, exc |-> f.exc,
                   log |-> removed]
             ELSE IF f.kind = "found"
             THEN LET tr_pref == preferred_traces[f.idx]
                      c == choose_preferred(h, tr_to_add, tr_pref,
                                            cfg.process_level_preference,
                                            cfg.format_preference)
                  IN  IF c.kind = "raise"
                      THEN [kind |-> "raise", preferred |-> preferred_traces,
                            exc |-> c.exc, log |-> removed]
                      ELSE IF ResultEqTrace(h, c, tr_to_add)
                      THEN DedupLoop(h, traces, k + 1,
                                     Append(ListRemove(h, preferred_traces, tr_pref),
                                            tr_to_add),
                                     Append(removed, [removed |-> tr_pref,
                                                      kept |-> tr_to_add]),
                                     cfg)
                      ELSE DedupLoop(h, traces, k + 1, preferred_traces,
                                     Append(removed, [removed |-> tr_to_add,
                                                      kept |-> tr_pref]),
                                     cfg)
             ELSE DedupLoop(h, traces, k + 1, Append(preferred_traces, tr_to_add),
                            removed, cfg)

\* The whole method: [kind, streams, heap, exc, log].
handle_duplicates(h, sts, cfg) ==
    LET g == gather_stream_parameters(h, sts)
        d == DedupLoop(g.heap, Flatten(sts, 1), 1, <<>>, <<>>, cfg)
    IN  IF d.kind = "raise"
        THEN [kind |-> "raise", streams |-> sts, heap |-> g.heap, exc |-> d.exc,
              log |-> d.log]
        ELSE [kind |-> "return",
              streams |-> insert_stream_parameters(
                              g.heap,
                              [k \in 1..Len(d.preferred) |->
                                  StationStream(<<d.preferred[k]>>)],
                              g.stream_params),
              heap |-> g.heap, exc |-> "", log |-> d.log]

----------------------------------------------------------------------------
\* StreamCollection.__group_by_net_sta_inst and split_station

SameClusterMutNoInst(h, trace1, trace2) ==
    /\ h[trace1].stats.network = h[trace2].stats.network
    /\ h[trace1].stats.station = h[trace2].stats.station
    /\ free_field(h, trace1) = free_field(h, trace2)

\* Lines 509-514: the test that puts trace2 into trace1's cluster.
SameCluster(h, trace1, trace2) ==
    /\ h[trace1].stats.network = h[trace2].stats.network
    /\ h[trace1].stats.station = h[trace2].stats.station
    /\ Inst(h[trace1].stats.channel) = Inst(h[trace2].stats.channel)
    /\ free_field(h, trace1) = free_field(h, trace2)

MatchesMutSelf(h, trace_list, idx1, all_matches) ==
    LET Test(idx2) == /\ ~In(idx1, all_matches)
                      /\ SameCluster(h, trace_list[idx1], trace_list[idx2])
    IN  <<idx1>> \o SelectSeq([i \in 1..Len(trace_list) |-> i], Test)

\* Lines 501-515: matches = [idx1] + every other index that matches it.
Matches(h, trace_list, idx1, all_matches) ==
    LET Test(idx2) == /\ idx1 # idx2
                      /\ ~In(idx1, all_matches)
                      /\ SameCluster(h, trace_list[idx1], trace_list[idx2])
    IN  <<idx1>> \o SelectSeq([i \in 1..Len(trace_list) |-> i], Test)

RECURSIVE MatchLoopMutDropSingle(_, _, _, _, _)
MatchLoopMutDropSingle(h, trace_list, idx1, all_matches, match_list) ==
    IF idx1 > Len(trace_list) THEN match_list
    ELSE IF In(idx1, all_matches)
    THEN MatchLoopMutDropSingle(h, trace_list, idx1 + 1, all_matches, match_list)
    ELSE LET matches == Matches(h, trace_list, idx1, all_matches)
         IN  IF Len(matches) > 1
             THEN MatchLoopMutDropSingle(h, trace_list, idx1 + 1,
                                         all_matches \o matches,
                                         Append(match_list, matches))
             ELSE MatchLoopMutDropSingle(h, trace_list, idx1 + 1, all_matches,
                                         match_list)

\* Lines 496-522: the list of clusters, as lists of indices into trace_list.
RECURSIVE MatchLoop(_, _, _, _, _)
MatchLoop(h, trace_list, idx1, all_matches, match_list) ==
    IF idx1 > Len(trace_list) THEN match_list
    ELSE IF In(idx1, all_matches)
    THEN MatchLoop(h, trace_list, idx1 + 1, all_matches, match_list)
    ELSE LET matches == Matches(h, trace_list, idx1, all_matches)
         IN  IF Len(matches) > 1 \/ ~In(matches[1], all_matches)
             THEN MatchLoop(h, trace_list, idx1 + 1, all_matches \o matches,
                            Append(match_list, matches))
             ELSE MatchLoop(h, trace_list, idx1 + 1, all_matches, match_list)

\* Lines 680-687: streams_dict, an insertion-ordered dict location -> stream,
\* kept as a sequence of [location, stream].
RECURSIVE SplitLoop(_, _, _, _)
SplitLoop(h, grouped_trace_list, k, streams_dict) ==
    IF k > Len(grouped_trace_list) THEN streams_dict
    ELSE LET trace == grouped_trace_list[k]
             loc == h[trace].stats.location
         IN  IF \E j \in Indices(streams_dict) : streams_dict[j].location = loc
             THEN LET j == CHOOSE j \in Indices(streams_dict) :
                               streams_dict[j].location = loc
                  IN  SplitLoop(h, grouped_trace_list, k + 1,
                          [streams_dict EXCEPT ![j].stream.traces = Append(@, trace)])
             ELSE SplitLoop(h, grouped_trace_list, k + 1,
                      Append(streams_dict,
                             [location |-> loc, stream |-> StationStream(<<trace>>)]))

SplitMutNever(h, grouped_trace_list) == <<StationStream(grouped_trace_list)>>

split_station(h, grouped_trace_list) ==
    IF h[grouped_trace_list[1]].stats.network \in NETWORKS_USING_LOCATION
    THEN LET streams_dict == SplitLoop(h, grouped_trace_list, 1, <<>>)
         IN  [j \in 1..Len(streams_dict) |-> streams_dict[j].stream]
    ELSE <<StationStream(grouped_trace_list)>>

\* Lines 524-540: one or more streams per cluster, in cluster order.
RECURSIVE GroupedStreams(_, _, _, _, _)
GroupedStreams(h, trace_list, match_list, k, stream_params) ==
    IF k > Len(match_list) THEN <<>>
    ELSE LET groups == match_list[k]
             grouped_trace_list == [i \in 1..Len(groups) |-> trace_list[groups[i]]]
         IN  insert_stream_parameters(h, split_station(h, grouped_trace_list),
                                      stream_params)
             \o GroupedStreams(h, trace_list, match_list, k + 1, stream_params)

\* The whole method: [streams, heap].
group_by_net_sta_inst(h, sts) ==
    LET g == gather_stream_parameters(h, sts)
        trace_list == Flatten(sts, 1)
        match_list == MatchLoop(g.heap, trace_list, 1, <<>>, <<>>)
    IN  [streams |-> GroupedStreams(g.heap, trace_list, match_list, 1,
                                    g.stream_params),
         heap |-> g.heap]

----------------------------------------------------------------------------
\* StreamCollection.validate: "" when it returns, else the exception.

validate(sts) ==
    IF \E k \in Indices(sts) : sts[k].has_tag /\ Len(sts[k].tag) # 3
    THEN "ValueError"
    ELSE LET all_labels == {IF sts[k].has_tag THEN sts[k].tag[3] ELSE "" :
                               k \in Indices(sts)}
         IN  IF Cardinality(all_labels) > 1 THEN "GMProcessException" ELSE ""

----------------------------------------------------------------------------
\* Inputs.

HNZ == <<"H", "N", "Z">>
HNE == <<"H", "N", "E">>
BNZ == <<"B", "N", "Z">>
HHZ == <<"H", "H", "Z">>

At(p) == [valid |-> "ok", latitude |-> p]
NoneCoordinates == [valid |-> "None", latitude |-> 0]
NaNCoordinates == [valid |-> "NaN", latitude |-> 0]

NewTrace(net, sta, loc, cha, coord, level, fmt, start, npts, rate, stype) ==
    [stats |-> [network |-> net, station |-> sta, location |-> loc,
                channel |-> cha, coordinates |-> coord,
                process_level |-> level, source_format |-> fmt,
                starttime |-> start, npts |-> npts, sampling_rate |-> rate,
                structure_type |-> stype, tag |-> EmptyTag],
     parameters |-> {}]

\* Near-duplicates: the same station and channel reported by two networks
\* at positions 0..MaxPos; the NC copies come at two process levels.
GeoTraces ==
    {NewTrace("NC", "S1", "00", HNZ, At(p), level, "cosmos", 1, 10, 100, <<>>) :
        p \in 0..MaxPos, level \in {"raw counts", "corrected physical units"}}
    \cup
    {NewTrace("CE", "S1", "00", HNZ, At(p), "raw counts", "cosmos", 1, 10, 100, <<>>) :
        p \in 0..MaxPos}

\* Copies of one channel that differ in what choose_preferred reads.
PrefTraces ==
    {NewTrace("NC", "S1", "00", HNZ, At(0), level, fmt, 1, nr[1], nr[2], <<>>) :
        level \in {"raw counts", "corrected physical units"},
        fmt \in {"cosmos", "knet"},
        nr \in {<<10, 100>>, <<20, 100>>, <<10, 200>>}}

\* Traces that differ in what the grouping reads.
GroupTraces ==
    {NewTrace("RE", "S1", loc, cha, At(0), "raw counts", "cosmos", 1, 10, 100, <<>>) :
        loc \in {"00", "10"}, cha \in {HNZ, HNE}}
    \cup
    {NewTrace("NC", "S1", loc, HNZ, At(0), "raw counts", "cosmos", 1, 10, 100, <<>>) :
        loc \in {"00", "10"}}
    \cup
    {NewTrace("NC", "S2", "00", HNZ, At(0), "raw counts", "cosmos", 1, 10, 100, stype) :
        stype \in {<<>>, <<"office", "building">>}}
    \cup
    {NewTrace("NC", "S1", "00", HNZ, At(0), "raw counts", "cosmos", 1, 10, 100,
              <<"office", "building">>),
     NewTrace("NC", "S1", "00", BNZ, At(0), "raw counts", "cosmos", 1, 10, 100, <<>>),
     NewTrace("RE", "S1", "00", BNZ, At(0), "raw counts", "cosmos", 1, 10, 100, <<>>)}

\* One single-trace stream per trace, as from_traces builds them.
Singletons(n) == [k \in 1..n |-> StationStream(<<k>>)]

NotAStream == [type |-> "dict", traces |-> <<>>, has_tag |-> FALSE,
               tag |-> EmptyTag, parameters |-> {}]

Config(dnf, hd, tol, plp, fp) ==
    [drop_non_free |-> dnf, handle_duplicates |-> hd, max_dist_tolerance |-> tol,
     process_level_preference |-> plp, format_preference |-> fp]

NoCall == [op |-> "", args |-> <<>>, ret |-> Return(None)]
\* No Collection has been returned yet.
NoCollection == [made |-> FALSE, by |-> "", streams |-> <<>>]

InitGeo ==
    \E n \in 0..MaxTraces, tol \in {MaxPos - 1, MaxPos} :
        /\ tol > 0
        /\ heap \in [1..n -> GeoTraces]
        /\ input = [is_list |-> TRUE, items |-> Singletons(n)]
        /\ config = Config(TRUE, TRUE, tol, <<"V2", "V1", "V0">>, <<"cosmos", "dmg">>)

InitPref ==
    \E n \in 2..MaxTraces, plp \in {<<"V2", "V0">>, <<"V1", "V0", "V2">>} :
        /\ heap \in [1..n -> PrefTraces]
        /\ input = [is_list |-> TRUE, items |-> Singletons(n)]
        /\ config = Config(TRUE, TRUE, 1, plp, <<"cosmos", "dmg">>)

InitGroup ==
    \E n \in 1..MaxTraces, hd \in BOOLEAN, dnf \in BOOLEAN :
        /\ hd \/ ~dnf
        /\ heap \in [1..n -> GroupTraces]
        /\ input = [is_list |-> TRUE, items |-> Singletons(n)]
        /\ config = Config(dnf, hd, 1, <<"V2", "V1", "V0">>, <<"cosmos", "dmg">>)

InitBadType ==
    \E is_list \in BOOLEAN :
        /\ heap \in [1..2 -> {t \in GroupTraces : t.stats.network = "RE"}]
        /\ \E items \in [1..2 -> {StationStream(<<1>>), StationStream(<<2>>),
                                  NotAStream}] :
              /\ ~is_list \/ \E k \in 1..2 : items[k] = NotAStream
              /\ input = [is_list |-> is_list, items |-> items]
        /\ config = Config(TRUE, TRUE, 1, <<"V2", "V1", "V0">>, <<"cosmos", "dmg">>)

\* Traces of Groups that carry metadata: one station of an exception-set
\* network with two channels and two location codes, and another station.
MetaTraces ==
    {NewTrace("RE", "S1", "00", cha, At(0), "raw counts", "cosmos", 1, 10, 100, <<>>) :
        cha \in {HNZ, HNE}}
    \cup
    {NewTrace("RE", "S1", "10", HNZ, At(0), "raw counts", "cosmos", 1, 10, 100, <<>>),
     NewTrace("NC", "S2", "00", HNZ, At(0), "raw counts", "cosmos", 1, 10, 100, <<>>)}

\* A stream as read back from a workspace: tagged "evt_<station>_<label>"
\* unless label is "", with stream parameters unless params is empty.
TaggedStream(h, traces, label, params) ==
    [StationStream(traces) EXCEPT
        !.has_tag = label # "",
        !.tag = IF label = "" THEN EmptyTag
                ELSE <<"evt", h[traces[1]].stats.station, label>>,
        !.parameters = params]

\* One or two Groups, the first of one or two traces; each Group with a
\* label A, B or no tag, and with parameters of its own or none.
InitMeta ==
    \E shape \in {<< <<1>> >>, << <<1>>, <<2>> >>, << <<1, 2>>, <<3>> >>} :
        /\ heap \in [1..(Len(shape[1]) + Len(shape) - 1) -> MetaTraces]
        /\ Len(shape[1]) = 2 =>
              /\ heap[1].stats.station = heap[2].stats.station
              /\ heap[1].stats.location = heap[2].stats.location
        /\ \E labels \in [1..Len(shape) -> {"", "A", "B"}],
              with_params \in [1..Len(shape) -> BOOLEAN] :
              input = [is_list |-> TRUE,
                       items |-> [k \in 1..Len(shape) |->
                                    TaggedStream(heap, shape[k], labels[k],
                                                 IF with_params[k]
                                                 THEN {<<"snr", k>>} ELSE {})]]
        /\ config = Config(TRUE, TRUE, 1, <<"V2", "V1", "V0">>, <<"cosmos", "dmg">>)

\* Copies of two channels at three process levels, of which the preference
\* list of the construction names two.
LevelTraces ==
    {NewTrace("NC", "S1", "00", cha, At(0), level, "cosmos", 1, 10, 100, <<>>) :
        cha \in {HNZ, HNE},
        level \in {"raw counts", "uncorrected physical units",
                   "corrected physical units"}}

InitUnlisted ==
    \E n \in 2..MaxTraces :
        /\ heap \in [1..n -> LevelTraces]
        /\ input = [is_list |-> TRUE, items |-> Singletons(n)]
        /\ config = Config(TRUE, TRUE, 1, <<"V2", "V0">>, <<"cosmos", "dmg">>)

\* Streams of two channels of one station, each trace free-field or inside
\* a building, so that a stream may mix the two; alone or with a stream of a
\* third trace.
MixedTraces ==
    {NewTrace("NC", "S1", "00", cha, At(0), "raw counts", "cosmos", 1, 10, 100, stype) :
        cha \in {HNZ, HNE}, stype \in {<<>>, <<"office", "building">>}}

InitMixed ==
    \E shape \in {<< <<1, 2>> >>, << <<1, 2>>, <<3>> >>}, dnf \in BOOLEAN :
        /\ heap \in [1..(Len(shape) + 1) -> MixedTraces]
        /\ input = [is_list |-> TRUE,
                    items |-> [k \in 1..Len(shape) |-> StationStream(shape[k])]]
        /\ config = Config(dnf, TRUE, 1, <<"V2", "V1", "V0">>, <<"cosmos", "dmg">>)

Init ==
    /\ pc = "start"
    /\ err = ""
    /\ streams = <<>>
    /\ call = NoCall
    /\ log = <<>>
    /\ calls = 0
    /\ returned = NoCollection
    /\ \/ InitGeo
       \/ InitPref
       \/ InitGroup
       \/ InitBadType
       \/ InitMeta
       \/ InitUnlisted
       \/ InitMixed
    /\ before = [heap |-> heap, streams |-> <<>>]

----------------------------------------------------------------------------
\* StreamCollection.__init__, one action per phase.

IngestMutSkipBad(h, inp, cfg) ==
    LET Keep(s) == /\ s.type = "StationStream"
                   /\ ~cfg.drop_non_free \/ free_field(h, s.traces[1])
    IN  [kind |-> "return", streams |-> SelectSeq(inp.items, Keep), exc |-> ""]

\* Lines 76-94: the type checks and the free-field filter.
ingest(h, inp, cfg) ==
    IF ~inp.is_list
       \/ \E k \in Indices(inp.items) : inp.items[k].type # "StationStream"
    THEN [kind |-> "raise", streams |-> <<>>, exc |-> "TypeError"]
    ELSE LET Keep(s) == ~cfg.drop_non_free \/ free_field(h, s.traces[1])
         IN  [kind |-> "return", streams |-> SelectSeq(inp.items, Keep),
              exc |-> ""]

Ingest ==
    /\ pc = "start"
    /\ LET r == ingest(heap, input, config)
       IN  /\ streams' = r.streams
           /\ err' = r.exc
           /\ pc' = IF r.kind = "raise" THEN "raised"
                    ELSE IF config.handle_duplicates /\ Len(r.streams) > 0
                    THEN "dedup" ELSE "group"
    /\ before' = [heap |-> heap, streams |-> streams]
    /\ UNCHANGED <<heap, input, config, call, log, calls, returned>>

\* Lines 95-100.
HandleDuplicates ==
    /\ pc = "dedup"
    /\ LET r == handle_duplicates(heap, streams, config)
       IN  /\ heap' = r.heap
           /\ streams' = r.streams
           /\ pc' = IF r.kind = "raise" THEN "raised" ELSE "group"
           /\ err' = r.exc
           /\ log' = log \o r.log
    /\ before' = [heap |-> heap, streams |-> streams]
    /\ UNCHANGED <<input, config, call, calls, returned>>

\* Line 101.
GroupByNetStaInst ==
    /\ pc = "group"
    /\ LET r == group_by_net_sta_inst(heap, streams)
       IN  /\ heap' = r.heap
           /\ streams' = r.streams
    /\ pc' = "validate"
    /\ before' = [heap |-> heap, streams |-> streams]
    /\ UNCHANGED <<input, config, err, call, log, calls, returned>>

\* Line 102.
Validate ==
    /\ pc = "validate"
    /\ err' = validate(streams)
    /\ pc' = IF validate(streams) = "" THEN "done" ELSE "raised"
    /\ before' = [heap |-> heap, streams |-> streams]
    /\ UNCHANGED <<heap, input, streams, config, call, log, calls, returned>>

Next == Ingest \/ HandleDuplicates \/ GroupByNetStaInst \/ Validate

Spec == Init /\ [][Next]_vars

----------------------------------------------------------------------------
\* The constructor as one call, as select() runs it.

\* get_config('duplicate'): the configuration file holds the values the
\* Collection of the model was constructed with.
get_config == [max_dist_tolerance |-> config.max_dist_tolerance,
               process_level_preference |-> config.process_level_preference,
               format_preference |-> config.format_preference]

\* Lines 51-53 and 566-575: the keyword defaults, None resolved from the
\* configuration.
DefaultArguments ==
    Config(TRUE, TRUE, get_config.max_dist_tolerance,
           get_config.process_level_preference, get_config.format_preference)

\* Line 102, on the result g of line 101.
InitAfterGroup(g, removed) ==
    [kind |-> IF validate(g.streams) = "" THEN "return" ELSE "raise",
     streams |-> IF validate(g.streams) = "" THEN g.streams ELSE <<>>,
     heap |-> g.heap, exc |-> validate(g.streams), log |-> removed]

\* Lines 101-102, on the result d of lines 95-100.
InitAfterDedup(d) ==
    IF d.kind = "raise"
    THEN [kind |-> "raise", streams |-> <<>>, heap |-> d.heap, exc |-> d.exc,
          log |-> d.log]
    ELSE InitAfterGroup(group_by_net_sta_inst(d.heap, d.streams), d.log)

\* Lines 95-102, on the result i of lines 76-94.
InitAfterIngest(h, i, cfg) ==
    IF i.kind = "raise"
    THEN [kind |-> "raise", streams |-> <<>>, heap |-> h, exc |-> i.exc,
          log |-> <<>>]
    ELSE IF cfg.handle_duplicates /\ Len(i.streams) > 0
    THEN InitAfterDedup(handle_duplicates(h, i.streams, cfg))
    ELSE InitAfterDedup([kind |-> "return", streams |-> i.streams, heap |-> h,
                         exc |-> "", log |-> <<>>])

\* Lines 76-102: [kind, streams, heap, exc, log].
StreamCollection(h, inp, cfg) == InitAfterIngest(h, ingest(h, inp, cfg), cfg)

----------------------------------------------------------------------------
\* StationTrace.fail, StreamCollection.select and select_colocated.

\* StationStream.get_inst() and get_net_sta(), of the first trace.
get_inst(h, st) == Inst(h[st.traces[1]].stats.channel)
get_net_sta(h, st) == <<h[st.traces[1]].stats.network, h[st.traces[1]].stats.station>>

\* setParameter('failure', {'module': <caller>, 'reason': reason})
fail(h, tr, module, reason) ==
    [h EXCEPT ![tr].parameters =
        DictSet(@, "failure", [module |-> module, reason |-> reason])]

RECURSIVE FailAll(_, _, _, _, _)
FailAll(h, traces, k, module, reason) ==
    IF k > Len(traces) THEN h
    ELSE FailAll(fail(h, traces[k], module, reason), traces, k + 1, module, reason)

\* fnmatch.fnmatch(name, pat) on upper-case names: ? is any character, * any
\* run of characters.
RECURSIVE Fnmatch(_, _)
Fnmatch(name, pat) ==
    IF pat = <<>> THEN name = <<>>
    ELSE IF Head(pat) = "*"
    THEN Fnmatch(name, Tail(pat)) \/ (name # <<>> /\ Fnmatch(Tail(name), pat))
    ELSE /\ name # <<>>
         /\ Head(pat) = "?" \/ Head(pat) = Head(name)
         /\ Fnmatch(Tail(name), Tail(pat))

\* re.compile(r).match(x) for an r of letters and digits: x starts with r.
RegexMatch(r, x) == Len(r) <= Len(x) /\ SubSeq(x, 1, Len(r)) = r

\* Lines 453-485, called with instrument only (network and station None):
\* a new StreamCollection of the streams whose instrument code matches.
select(h, sts, instrument) ==
    LET Sel(st) == Fnmatch(get_inst(h, st), instrument)
    IN  StreamCollection(h, [is_list |-> TRUE, items |-> SelectSeq(sts, Sel)],
                         DefaultArguments)

\* Lines 157-174: the stations, as lists of indices into self.streams.
NetStaMatches(h, sts, idx1, all_matches) ==
    LET Test(idx2) == /\ idx1 # idx2
                      /\ ~In(idx1, all_matches)
                      /\ get_net_sta(h, sts[idx1]) = get_net_sta(h, sts[idx2])
    IN  <<idx1>> \o SelectSeq([i \in 1..Len(sts) |-> i], Test)

RECURSIVE NetStaMatchLoop(_, _, _, _, _)
NetStaMatchLoop(h, sts, idx1, all_matches, match_list) ==
    IF idx1 > Len(sts) THEN match_list
    ELSE IF In(idx1, all_matches)
    THEN NetStaMatchLoop(h, sts, idx1 + 1, all_matches, match_list)
    ELSE LET matches == NetStaMatches(h, sts, idx1, all_matches)
         IN  IF Len(matches) > 1 \/ ~In(matches[1], all_matches)
             THEN NetStaMatchLoop(h, sts, idx1 + 1, all_matches \o matches,
                                  Append(match_list, matches))
             ELSE NetStaMatchLoop(h, sts, idx1 + 1, all_matches, match_list)

\* list.remove(x) on a list of strings.
RemoveFirst(s, x) ==
    LET i == CHOOSE i \in Indices(s) : s[i] = x /\ \A j \in 1..(i - 1) : s[j] # x
    IN  SubSeq(s, 1, i - 1) \o SubSeq(s, i + 1, Len(s))

\* Lines 197-202: for tf in to_fail: fail every trace of self.select(tf).
\* FailSelected does so with the Collection sel that select returned.
RECURSIVE FailLosers(_, _, _, _, _)
RECURSIVE FailSelected(_, _, _, _, _)
FailLosers(h, sts, to_fail, k, keep) ==
    IF k > Len(to_fail) THEN [kind |-> "return", heap |-> h, exc |-> ""]
    ELSE FailSelected(select(h, sts, to_fail[k]), sts, to_fail, k, keep)

FailSelected(sel, sts, to_fail, k, keep) ==
    IF sel.kind = "raise"
    THEN [kind |-> "raise", heap |-> sel.heap, exc |-> sel.exc]
    ELSE FailLosers(FailAll(sel.heap, Flatten(sel.streams, 1), 1,
                            "select_colocated", <<"Colocated with", keep>>),
                    sts, to_fail, k + 1, keep)

\* Lines 184-213: one station with more than one stream.
RECURSIVE PreferenceLoop(_, _, _, _, _, _)
PreferenceLoop(h, sts, group, group_insts, preference, j) ==
    IF j > Len(preference)
    THEN [kind |-> "return",
          heap |-> FailAll(h, Flatten([i \in 1..Len(group) |-> sts[group[i]]], 1), 1,
                           "select_colocated", <<"No instruments match", <<>> >>),
          exc |-> ""]
    ELSE LET r == SubSeq(preference[j], 1, 2)
             Match(x) == RegexMatch(r, x)
             inst_match == SelectSeq(group_insts, Match)
         IN  IF Len(inst_match) > 0
             THEN FailLosers(h, sts, RemoveFirst(group_insts, inst_match[1]), 1,
                             inst_match[1])
             ELSE PreferenceLoop(h, sts, group, group_insts, preference, j + 1)

\* Lines 176-213: the loop over the stations.  NextStation goes on with
\* the result r of the station before.
RECURSIVE ColocatedLoop(_, _, _, _, _)
RECURSIVE NextStation(_, _, _, _, _)
ColocatedLoop(h, sts, match_list, k, preference) ==
    IF k > Len(match_list)
    THEN [kind |-> "return", streams |-> sts, heap |-> h, exc |-> ""]
    ELSE IF Len(match_list[k]) > 1
    THEN NextStation(
             PreferenceLoop(h, sts, match_list[k],
                            [i \in 1..Len(match_list[k]) |->
                                get_inst(h, sts[match_list[k][i]])],
                            preference, 1),
             sts, match_list, k, preference)
    ELSE ColocatedLoop(h, sts, match_list, k + 1, preference)

NextStation(r, sts, match_list, k, preference) ==
    IF r.kind = "raise"
    THEN [kind |-> "raise", streams |-> sts, heap |-> r.heap, exc |-> r.exc]
    ELSE ColocatedLoop(r.heap, sts, match_list, k + 1, preference)

SelectColocatedMutDropFailed(h, sts, preference) ==
    LET r == ColocatedLoop(h, sts, NetStaMatchLoop(h, sts, 1, <<>>, <<>>), 1, preference)
        Passed(st) == \A i \in Indices(st.traces) :
                          ~DictHas(r.heap[st.traces[i]].parameters, "failure")
    IN  [r EXCEPT !.streams = SelectSeq(sts, Passed)]

\* The whole method: [kind, streams, heap, exc]; streams is self.streams when
\* it returns or raises.
select_colocated(h, sts, preference) ==
    ColocatedLoop(h, sts, NetStaMatchLoop(h, sts, 1, <<>>, <<>>), 1, preference)

\* The preference lists of the calls: the default of line 133, and others.
DefaultPreference == <<<<"H", "N", "?">>, <<"B", "N", "?">>,
                       <<"H", "H", "?">>, <<"B", "H", "?">> >>
Preferences ==
    {DefaultPreference,
     << <<"B", "N", "?">>, <<"H", "N", "?">> >>,
     << <<"H", "H", "?">> >>}

SelectColocated ==
    /\ pc = "done"
    /\ calls < MaxCalls
    /\ \E preference \in Preferences :
          \E r \in {select_colocated(heap, streams, preference)} :
              /\ heap' = r.heap
              /\ streams' = r.streams
              /\ err' = r.exc
              /\ call' = [op |-> "select_colocated", args |-> <<preference>>,
                          ret |-> IF r.kind = "raise" THEN Raise(r.exc)
                                  ELSE Return(None)]
    /\ before' = [heap |-> heap, streams |-> streams]
    /\ calls' = calls + 1
    /\ UNCHANGED <<input, config, pc, log, returned>>

\* Collections with stations that have one or several instruments: two
\* stations with strong-motion and broadband channels, an exception-set
\* station with two location codes, and a channel inside a building.  A
\* Collection that is to hold the latter is constructed with drop_non_free
\* and handle_duplicates False.
ColocTraces ==
    {NewTrace("NC", sta, "00", cha, At(0), "raw counts", "cosmos", 1, 10, 100, <<>>) :
        sta \in {"S1", "S2"}, cha \in {HNZ, BNZ}}
    \cup
    {NewTrace("RE", "S1", loc, HNZ, At(0), "raw counts", "cosmos", 1, 10, 100, <<>>) :
        loc \in {"00", "10"}}
    \cup
    {NewTrace("NC", "S1", "00", <<"H", "H", "Z">>, At(0), "raw counts", "cosmos",
              1, 10, 100, <<>>),
     NewTrace("NC", "S1", "00", HNE, At(0), "raw counts", "cosmos", 1, 10, 100,
              <<"office", "building">>)}

\* Two stations with their instruments: the first two traces are of
\* station S1, the others of S2, each of one of three instrument codes.
InitPairs ==
    \E c \in [1..MaxPairTraces -> {HNZ, BNZ, HHZ}] :
        /\ heap = [k \in 1..MaxPairTraces |->
                      NewTrace("NC", IF k <= 2 THEN "S1" ELSE "S2", "00", c[k],
                               At(0), "raw counts", "cosmos", 1, 10, 100, <<>>)]
        /\ input = [is_list |-> TRUE, items |-> Singletons(MaxPairTraces)]
        /\ config = Config(TRUE, TRUE, 1, <<"V2", "V1", "V0">>, <<"cosmos", "dmg">>)

InitColoc ==
    /\ pc = "start"
    /\ err = ""
    /\ streams = <<>>
    /\ call = NoCall
    /\ log = <<>>
    /\ calls = 0
    /\ returned = NoCollection
    /\ \/ \E n \in 1..MaxTraces :
             /\ heap \in [1..n -> ColocTraces]
             /\ input = [is_list |-> TRUE, items |-> Singletons(n)]
             /\ LET all == \E t \in 1..n : ~free_field(heap, t)
                IN  config = Config(~all, ~all, 1, <<"V2", "V1", "V0">>,
                                    <<"cosmos", "dmg">>)
       \/ InitPairs
    /\ before = [heap |-> heap, streams |-> <<>>]

NextColoc == Next \/ SelectColocated

SpecColoc == InitColoc /\ [][NextColoc]_vars

----------------------------------------------------------------------------
\* __setitem__, __delitem__ and pop: the list methods of self.streams.

\* The position (from 1) a Python index names in a list, 0 if out of range.
Position(s, index) ==
    LET i == IF index < 0 THEN Len(s) + index + 1 ELSE index + 1
    IN  IF i \in 1..Len(s) THEN i ELSE 0

\* Lines 398-402.
SetItem ==
    /\ pc = "done"
    /\ calls < MaxCalls
    /\ \E index \in {-1, 0, 1}, t \in DOMAIN heap, label \in {"A", "B"} :
          LET stream == TaggedStream(heap, <<t>>, label, {})
              i == Position(streams, index)
          IN  /\ streams' = IF i = 0 THEN streams ELSE [streams EXCEPT ![i] = stream]
              /\ err' = IF i = 0 THEN "IndexError" ELSE ""
              /\ call' = [op |-> "__setitem__", args |-> <<index, stream>>,
                          ret |-> IF i = 0 THEN Raise("IndexError") ELSE Return(None)]
    /\ before' = [heap |-> heap, streams |-> streams]
    /\ calls' = calls + 1
    /\ UNCHANGED <<heap, input, config, pc, log, returned>>

\* list.__delitem__(index) and list.pop(index): the list without the item.
ListDelete(s, i) == SubSeq(s, 1, i - 1) \o SubSeq(s, i + 1, Len(s))

\* Lines 413-417.
DelItem ==
    /\ pc = "done"
    /\ calls < MaxCalls
    /\ \E index \in {0, 1} :
          LET i == Position(streams, index)
          IN  /\ streams' = IF i = 0 THEN streams ELSE ListDelete(streams, i)
              /\ err' = IF i = 0 THEN "IndexError" ELSE ""
              /\ call' = [op |-> "__delitem__", args |-> <<index>>,
                          ret |-> IF i = 0 THEN Raise("IndexError") ELSE Return(None)]
    /\ before' = [heap |-> heap, streams |-> streams]
    /\ calls' = calls + 1
    /\ UNCHANGED <<heap, input, config, pc, log, returned>>

\* Lines 440-445; index is -1 when the caller gives none.
Pop ==
    /\ pc = "done"
    /\ calls < MaxCalls
    /\ \E index \in {-1, 0} :
          LET i == Position(streams, index)
          IN  /\ streams' = IF i = 0 THEN streams ELSE ListDelete(streams, i)
              /\ err' = IF i = 0 THEN "IndexError" ELSE ""
              /\ call' = [op |-> "pop", args |-> <<index>>,
                          ret |-> IF i = 0 THEN Raise("IndexError")
                                  ELSE Return(streams[i])]
    /\ before' = [heap |-> heap, streams |-> streams]
    /\ calls' = calls + 1
    /\ UNCHANGED <<heap, input, config, pc, log, returned>>

\* Small tagged Collections: one or two single-trace Groups of two stations
\* and two instruments, each tagged with the label A or untagged.
OpsTraces ==
    {NewTrace("NC", "S1", "00", cha, At(0), "raw counts", "cosmos", 1, 10, 100, <<>>) :
        cha \in {HNZ, BNZ}}
    \cup
    {NewTrace("NC", "S2", "00", HNZ, At(0), "raw counts", "cosmos", 1, 10, 100, <<>>)}

InitOps ==
    /\ pc = "start"
    /\ err = ""
    /\ streams = <<>>
    /\ call = NoCall
    /\ log = <<>>
    /\ calls = 0
    /\ returned = NoCollection
    /\ \E n \in 1..2 :
          /\ heap \in [1..n -> OpsTraces]
          /\ \E labels \in [1..n -> {"", "A"}] :
                input = [is_list |-> TRUE,
                         items |-> [k \in 1..n |->
                                      TaggedStream(heap, <<k>>, labels[k], {})]]
          /\ config = Config(TRUE, TRUE, 1, <<"V2", "V1", "V0">>, <<"cosmos", "dmg">>)
    /\ before = [heap |-> heap, streams |-> <<>>]

NextOps == Next \/ SelectColocated \/ SetItem \/ DelItem \/ Pop

SpecOps == InitOps /\ [][NextOps]_vars

----------------------------------------------------------------------------
\* copy, select, append and +: the methods that return a Collection.

\* A reference to the Collection held by `returned`, as a returned value.
NewCollection == <<"StreamCollection", 0>>

\* What `returned` holds after a constructor call that ended as r: the new
\* Collection, or what it held before if the call raised.
Constructed(r, by) ==
    IF r.kind = "return"
    THEN [made |-> TRUE, by |-> by, streams |-> r.streams]
    ELSE returned

\* copy.deepcopy(self): a new object for every trace of the Collection, the
\* copy of the trace at position p of the flattened Collection after the
\* objects there are, and streams that hold the copies.
deepcopy(h, sts) ==
    LET members == Flatten(sts, 1)
        NewId(t) == Len(h) + IndexOf(t, members) + 1
    IN  [kind |-> "return",
         streams |-> [k \in 1..Len(sts) |->
                        [sts[k] EXCEPT !.traces =
                            [i \in 1..Len(sts[k].traces) |-> NewId(sts[k].traces[i])]]],
         heap |-> h \o [p \in 1..Len(members) |-> h[members[p]]],
         exc |-> ""]

\* Lines 447-451.
Copy ==
    /\ pc = "done"
    /\ calls < MaxCalls
    /\ \E r \in {deepcopy(heap, streams)} :
          /\ heap' = r.heap
          /\ returned' = Constructed(r, "copy")
    /\ err' = ""
    /\ call' = [op |-> "copy", args |-> <<>>, ret |-> Return(NewCollection)]
    /\ before' = [heap |-> heap, streams |-> streams]
    /\ calls' = calls + 1
    /\ UNCHANGED <<input, streams, config, pc, log>>

\* Lines 453-485, called with an instrument pattern.
Select ==
    /\ pc = "done"
    /\ calls < MaxCalls
    /\ \E instrument \in {<<"H", "N">>, <<"B", "?">>, <<"*">>} :
          \E r \in {select(heap, streams, instrument)} :
              /\ heap' = r.heap
              /\ returned' = Constructed(r, "select")
              /\ err' = r.exc
              /\ call' = [op |-> "select", args |-> <<instrument>>,
                          ret |-> IF r.kind = "raise" THEN Raise(r.exc)
                                  ELSE Return(NewCollection)]
    /\ before' = [heap |-> heap, streams |-> streams]
    /\ calls' = calls + 1
    /\ UNCHANGED <<input, streams, config, pc, log>>

\* Lines 425-438: [kind, streams, heap, exc, log] of the Collection built.
append(h, sts, stream) ==
    IF stream.type = "StationStream"
    THEN StreamCollection(h, [is_list |-> TRUE, items |-> sts \o <<stream>>],
                          DefaultArguments)
    ELSE [kind |-> "raise", streams |-> <<>>, heap |-> h, exc |-> "TypeError",
          log |-> <<>>]

AppendStream ==
    /\ pc = "done"
    /\ calls < MaxCalls
    /\ \E stream \in {StationStream(<<t>>) : t \in DOMAIN heap} \cup {NotAStream} :
          \E r \in {append(heap, streams, stream)} :
              /\ heap' = r.heap
              /\ returned' = Constructed(r, "append")
              /\ err' = r.exc
              /\ call' = [op |-> "append", args |-> <<stream>>,
                          ret |-> IF r.kind = "raise" THEN Raise(r.exc)
                                  ELSE Return(NewCollection)]
    /\ before' = [heap |-> heap, streams |-> streams]
    /\ calls' = calls + 1
    /\ UNCHANGED <<input, streams, config, pc, log>>

\* Lines 383-390; other is [type, streams].
add(h, sts, other) ==
    IF other.type # "StreamCollection"
    THEN [kind |-> "raise", streams |-> <<>>, heap |-> h, exc |-> "TypeError",
          log |-> <<>>]
    ELSE StreamCollection(h, [is_list |-> TRUE, items |-> sts \o other.streams],
                          DefaultArguments)

\* self + other, other being self, the Collection returned before, or a list.
Add ==
    /\ pc = "done"
    /\ calls < MaxCalls
    /\ \E name \in {"self", "returned", "list"} :
          /\ name = "returned" => returned.made
          /\ LET other == CASE name = "self" ->
                                   [type |-> "StreamCollection", streams |-> streams]
                            [] name = "returned" ->
                                   [type |-> "StreamCollection",
                                    streams |-> returned.streams]
                            [] name = "list" ->
                                   [type |-> "list", streams |-> streams]
             IN  \E r \in {add(heap, streams, other)} :
                     /\ heap' = r.heap
                     /\ returned' = Constructed(r, "__add__")
                     /\ err' = r.exc
                     /\ call' = [op |-> "__add__", args |-> <<name>>,
                                 ret |-> IF r.kind = "raise" THEN Raise(r.exc)
                                         ELSE Return(NewCollection)]
    /\ before' = [heap |-> heap, streams |-> streams]
    /\ calls' = calls + 1
    /\ UNCHANGED <<input, streams, config, pc, log>>

\* A check run on a trace reached through the Collection or through the
\* Collection returned from it calls tr.fail(reason).
FailTrace ==
    /\ pc = "done"
    /\ calls < MaxCalls
    /\ returned.made
    /\ \E through \in {"self", "returned"} :
          LET traces == Flatten(IF through = "self" THEN streams
                                ELSE returned.streams, 1)
          IN  \E i \in Indices(traces) :
                  /\ heap' = fail(heap, traces[i], "check", <<"Failed a check", <<>> >>)
                  /\ call' = [op |-> "fail", args |-> <<through, traces[i]>>,
                              ret |-> Return(None)]
    /\ err' = ""
    /\ before' = [heap |-> heap, streams |-> streams]
    /\ calls' = calls + 1
    /\ UNCHANGED <<input, streams, config, pc, log, returned>>

\* Traces of two stations and two instruments, one of them inside a
\* building.  The Collection is constructed from all of them or from all
\* but the last, which is then a trace outside the Collection.
ShareTraces ==
    {NewTrace("NC", "S1", "00", cha, At(0), "raw counts", "cosmos", 1, 10, 100, <<>>) :
        cha \in {HNZ, BNZ}}
    \cup
    {NewTrace("NC", "S2", "00", HNZ, At(0), "raw counts", "cosmos", 1, 10, 100, stype) :
        stype \in {<<>>, <<"office", "building">>}}

InitShare ==
    /\ pc = "start"
    /\ err = ""
    /\ streams = <<>>
    /\ call = NoCall
    /\ log = <<>>
    /\ calls = 0
    /\ returned = NoCollection
    /\ \E n \in 1..MaxTraces, spare \in {0, 1} :
          /\ heap \in [1..n -> ShareTraces]
          /\ input = [is_list |-> TRUE, items |-> Singletons(n - spare)]
          /\ config = Config(TRUE, TRUE, 1, <<"V2", "V1", "V0">>, <<"cosmos", "dmg">>)
    /\ before = [heap |-> heap, streams |-> <<>>]

NextShare == Next \/ Copy \/ Select \/ AppendStream \/ Add \/ FailTrace

SpecShare == InitShare /\ [][NextShare]_vars

----------------------------------------------------------------------------
\* The module-level functions called on their own.

\* Traces that differ in every attribute choose_preferred reads; two
\* objects with equal attributes are still two traces.
ChoiceTraces ==
    {NewTrace(net, "S1", "00", HNZ, At(0), level, fmt, start, npts, rate, <<>>) :
        net \in {"NC"}, level \in {"raw counts", "corrected physical units"},
        fmt \in {"cosmos", "dmg", "knet"}, start \in {EpochZero, 1},
        npts \in {10, 20}, rate \in {100, 200}}

TripleTraces ==
    {t \in ChoiceTraces : t.stats.starttime = 1 /\ t.stats.sampling_rate = 100}

\* Pairs of traces that differ in what are_duplicates reads.
DupTraces ==
    {NewTrace(net, sta, loc, cha, coord, "raw counts", "cosmos", 1, 10, 100, <<>>) :
        net \in {"NC", "CE"}, sta \in {"S1", "S2"}, loc \in {"00", "10"},
        cha \in {HNZ, HNE},
        coord \in {At(p) : p \in 0..MaxPos} \cup {NoneCoordinates, NaNCoordinates}}

InitFn ==
    /\ pc = "call"
    /\ err = ""
    /\ streams = <<>>
    /\ input = [is_list |-> TRUE, items |-> <<>>]
    /\ call = NoCall
    /\ log = <<>>
    /\ calls = 0
    /\ returned = NoCollection
    /\ \/ /\ \/ heap \in [1..2 -> ChoiceTraces]
             \/ heap \in [1..3 -> TripleTraces]
          /\ \E plp \in {<<"V2", "V0">>, <<"V0", "V2">>, <<"V2">>},
                fp \in {<<"cosmos", "dmg">>, <<"dmg", "cosmos">>} :
                config = Config(TRUE, TRUE, 1, plp, fp)
       \/ /\ heap \in [1..2 -> DupTraces]
          /\ \E tol \in 1..MaxPos :
                config = Config(TRUE, TRUE, tol, <<"V2", "V0">>, <<"cosmos", "dmg">>)
    /\ before = [heap |-> heap, streams |-> <<>>]

CallChoosePreferred ==
    /\ pc = "call"
    /\ \E tr1 \in DOMAIN heap, tr2 \in DOMAIN heap :
          call' = [op |-> "choose_preferred", args |-> <<tr1, tr2>>,
                   ret |-> choose_preferred(heap, tr1, tr2,
                                            config.process_level_preference,
                                            config.format_preference)]
    /\ pc' = "returned"
    /\ UNCHANGED <<heap, input, streams, config, err, log, before, calls, returned>>

CallAreDuplicates ==
    /\ pc = "call"
    /\ \E tr1 \in DOMAIN heap, tr2 \in DOMAIN heap :
          call' = [op |-> "are_duplicates", args |-> <<tr1, tr2>>,
                   ret |-> are_duplicates(heap, tr1, tr2, config.max_dist_tolerance)]
    /\ pc' = "returned"
    /\ UNCHANGED <<heap, input, streams, config, err, log, before, calls, returned>>

NextFn == CallChoosePreferred \/ CallAreDuplicates

SpecFn == InitFn /\ [][NextFn]_vars

----------------------------------------------------------------------------
\* What the properties below read of a call and of a trace.

ChooseCalled == pc = "returned" /\ call.op = "choose_preferred"
DupCalled == pc = "returned" /\ call.op = "are_duplicates"

LevelListed(t) ==
    In(REV_PROCESS_LEVELS(heap[t].stats.process_level),
       config.process_level_preference)
LevelRank(t) ==
    IndexOf(REV_PROCESS_LEVELS(heap[t].stats.process_level),
            config.process_level_preference)
FormatListed(t) == In(heap[t].stats.source_format, config.format_preference)
FormatRank(t) == IndexOf(heap[t].stats.source_format, config.format_preference)
StartUnset(t) == heap[t].stats.starttime = EpochZero

\* The two traces are level with each other at every stage of the cascade.
FullTie(a, b) ==
    /\ LevelListed(a) /\ LevelListed(b) /\ LevelRank(a) = LevelRank(b)
    /\ FormatListed(a) /\ FormatListed(b) /\ FormatRank(a) = FormatRank(b)
    /\ StartUnset(a) = StartUnset(b)
    /\ heap[a].stats.npts = heap[b].stats.npts
    /\ heap[a].stats.sampling_rate = heap[b].stats.sampling_rate

\* choose_preferred(x, y) returns x.
Chosen(x, y) ==
    choose_preferred(heap, x, y, config.process_level_preference,
                     config.format_preference) = Return(Ref(x))

----------------------------------------------------------------------------
\* C1: whenever both process levels are in process_level_preference,
\* choose_preferred(a, b, ...) returns the object a or the object b, whatever
\* format_preference holds: never another object, never no value.
C1_ReturnsAnArgument ==
    (/\ ChooseCalled
     /\ LevelListed(call.args[1])
     /\ LevelListed(call.args[2]))
    => /\ call.ret.kind = "return"
       /\ call.ret.value \in {Ref(call.args[1]), Ref(call.args[2])}

\* C4: for two traces with the same (network, station, location, channel),
\* are_duplicates returns True for every pair of coordinates (equal, apart,
\* None, NaN) and every tolerance; it does not raise.
C4_SameIdIsDuplicate ==
    (/\ DupCalled
     /\ TraceId(heap, call.args[1]) = TraceId(heap, call.args[2]))
    => call.ret = Return(TRUE)

\* C4 happens: a call on two traces with one id, one of them without
\* coordinates, has returned.
C4_Witness ==
    /\ DupCalled
    /\ call.args[1] # call.args[2]
    /\ TraceId(heap, call.args[1]) = TraceId(heap, call.args[2])
    /\ heap[call.args[1]].stats.coordinates.valid = "None"
    /\ heap[call.args[2]].stats.coordinates.valid = "ok"
    /\ call.ret.kind = "return"

\* C5: for two traces whose ids differ and whose distance can be computed,
\* are_duplicates returns True exactly when station, location and channel
\* are equal and the distance is strictly below the tolerance (a NaN
\* distance is below nothing).
C5_NearDuplicateIff ==
    LET a == heap[call.args[1]].stats
        b == heap[call.args[2]].stats
    IN  (/\ DupCalled
         /\ <<a.network, a.station, a.location, a.channel>>
                # <<b.network, b.station, b.location, b.channel>>
         /\ a.coordinates.valid # "None" /\ b.coordinates.valid # "None")
        => /\ call.ret.kind = "return"
           /\ call.ret.value <=>
                 /\ a.station = b.station
                 /\ a.location = b.location
                 /\ a.channel = b.channel
                 /\ a.coordinates.valid = "ok" /\ b.coordinates.valid = "ok"
                 /\ a.coordinates.latitude - b.coordinates.latitude < config.max_dist_tolerance
                 /\ b.coordinates.latitude - a.coordinates.latitude < config.max_dist_tolerance

\* C5 happens: two networks' traces of one channel exactly the tolerance
\* apart, found not to be duplicates.
C5_Witness ==
    /\ DupCalled
    /\ heap[call.args[1]].stats.network # heap[call.args[2]].stats.network
    /\ heap[call.args[1]].stats.station = heap[call.args[2]].stats.station
    /\ heap[call.args[1]].stats.location = heap[call.args[2]].stats.location
    /\ heap[call.args[1]].stats.channel = heap[call.args[2]].stats.channel
    /\ heap[call.args[1]].stats.coordinates.valid = "ok"
    /\ heap[call.args[2]].stats.coordinates.valid = "ok"
    /\ heap[call.args[1]].stats.coordinates.latitude
         - heap[call.args[2]].stats.coordinates.latitude = config.max_dist_tolerance
    /\ call.ret = Return(FALSE)

\* C6 as stated: for two different traces a and b, choose_preferred(a, b)
\* and choose_preferred(b, a) give the same trace.
C6_SwapGivesSameTrace ==
    (ChooseCalled /\ call.args[1] # call.args[2])
    => call.ret = choose_preferred(heap, call.args[2], call.args[1],
                                   config.process_level_preference,
                                   config.format_preference)

\* C6 amended: for two different traces a and b, choose_preferred(a, b) and
\* choose_preferred(b, a) end the same way (the same trace, no value both
\* times, or the same error), unless a and b are level at every stage: then
\* each call returns its own first argument.
C6_SwapGivesSameTraceUnlessTied ==
    (ChooseCalled /\ call.args[1] # call.args[2])
    => IF FullTie(call.args[1], call.args[2])
       THEN /\ call.ret = Return(Ref(call.args[1]))
            /\ Chosen(call.args[2], call.args[1])
       ELSE call.ret = choose_preferred(heap, call.args[2], call.args[1],
                                        config.process_level_preference,
                                        config.format_preference)

\* C6 happens: two traces level on process level and format, not on the
\* later stages; the call returned its second argument.
C6_Witness ==
    /\ ChooseCalled
    /\ call.args[1] # call.args[2]
    /\ LevelListed(call.args[1]) /\ LevelListed(call.args[2])
    /\ LevelRank(call.args[1]) = LevelRank(call.args[2])
    /\ FormatListed(call.args[1]) /\ FormatListed(call.args[2])
    /\ FormatRank(call.args[1]) = FormatRank(call.args[2])
    /\ ~FullTie(call.args[1], call.args[2])
    /\ call.ret = Return(Ref(call.args[2]))

\* C7: "choose_preferred(x, y) returns x" is a total order over traces with
\* pairwise different attributes and listed process levels: of two traces
\* one is chosen over the other, and if a is chosen over b and b over c then
\* a is chosen over c.
C7_TotalOrder ==
    ChooseCalled =>
        LET a == call.args[1]
            b == call.args[2]
        IN  (/\ heap[a].stats # heap[b].stats
             /\ LevelListed(a) /\ LevelListed(b))
            => /\ call.ret = Return(Ref(a)) \/ call.ret = Return(Ref(b))
               /\ \A c \in DOMAIN heap :
                     (/\ LevelListed(c)
                      /\ heap[c].stats # heap[a].stats
                      /\ heap[c].stats # heap[b].stats
                      /\ call.ret = Return(Ref(a))
                      /\ Chosen(b, c))
                     => Chosen(a, c)

\* The transitive half of C7 alone.
C7_NoCycle ==
    ChooseCalled =>
        \A c \in DOMAIN heap :
            (call.ret = Return(Ref(call.args[1])) /\ Chosen(call.args[2], c))
            => Chosen(call.args[1], c)

\* C8: when the two process levels have different indices in
\* process_level_preference, choose_preferred returns the trace with the
\* lower index, whatever the formats, start times, sample counts and rates.
C8_LowerLevelIndexWins ==
    (/\ ChooseCalled
     /\ LevelListed(call.args[1]) /\ LevelListed(call.args[2])
     /\ LevelRank(call.args[1]) # LevelRank(call.args[2]))
    => call.ret = Return(Ref(IF LevelRank(call.args[1]) < LevelRank(call.args[2])
                             THEN call.args[1] ELSE call.args[2]))

\* C8 happens: the second argument has the lower index and loses every
\* later stage (unlisted format, unset start time, fewer samples, lower
\* rate), and was returned.
C8_Witness ==
    /\ ChooseCalled
    /\ LevelListed(call.args[1]) /\ LevelListed(call.args[2])
    /\ LevelRank(call.args[2]) < LevelRank(call.args[1])
    /\ FormatListed(call.args[1]) /\ ~FormatListed(call.args[2])
    /\ ~StartUnset(call.args[1]) /\ StartUnset(call.args[2])
    /\ heap[call.args[2]].stats.npts < heap[call.args[1]].stats.npts
    /\ heap[call.args[2]].stats.sampling_rate < heap[call.args[1]].stats.sampling_rate
    /\ call.ret = Return(Ref(call.args[2]))

----------------------------------------------------------------------------
\* What the properties below read of a Collection under construction.

\* The traces of self.streams, in order.
Members == Flatten(streams, 1)
\* The traces handed to the constructor, in order.
Given == Flatten(input.items, 1)
\* __handle_duplicates has just returned.
AfterDedup == pc = "group" /\ config.handle_duplicates
\* Two traces are members of one Group.
SameGroup(t1, t2) ==
    \E k \in Indices(streams) : In(t1, streams[k].traces) /\ In(t2, streams[k].traces)
\* The key the Grouping Engine clusters by.
ClusterKey(t) ==
    <<heap[t].stats.network, heap[t].stats.station,
      <<heap[t].stats.channel[1], heap[t].stats.channel[2]>>,
      \A i \in 1..Len(heap[t].stats.structure_type) :
          heap[t].stats.structure_type[i] \notin NON_FREE>>

\* C2: after the dedup phase no two surviving traces are duplicates of each
\* other (are_duplicates with the tolerance of the construction).
C2_NoDuplicatesSurvive ==
    AfterDedup =>
        \A i \in Indices(Members), j \in Indices(Members) :
            i # j => are_duplicates(heap, Members[i], Members[j],
                                    config.max_dist_tolerance) # Return(TRUE)

\* The case of C3: two free-field traces with one id and two listed process
\* levels of different rank, constructed with handle_duplicates.
C3_Case ==
    /\ input.is_list
    /\ \A k \in Indices(input.items) : input.items[k].type = "StationStream"
    /\ Len(input.items) = 2 /\ Len(Given) = 2
    /\ config.handle_duplicates
    /\ free_field(heap, Given[1]) /\ free_field(heap, Given[2])
    /\ TraceId(heap, Given[1]) = TraceId(heap, Given[2])
    /\ LevelListed(Given[1]) /\ LevelListed(Given[2])
    /\ LevelRank(Given[1]) # LevelRank(Given[2])

\* C3: constructed from two traces with one id and different process levels,
\* the Collection holds, from the dedup phase on, exactly the trace whose
\* level comes first in process_level_preference, whichever came first in
\* the input and whatever the formats, sample counts and rates; construction
\* does not raise.
C3_KeepsLowerLevelIndex ==
    C3_Case =>
        /\ pc # "raised"
        /\ pc \in {"group", "validate", "done"} =>
              Members = <<IF LevelRank(Given[1]) < LevelRank(Given[2])
                          THEN Given[1] ELSE Given[2]>>

\* C3 happens: the second trace of the input has the lower level index, an
\* unlisted format and fewer samples; it evicted the first and construction
\* is over.
C3_Witness ==
    /\ C3_Case
    /\ pc = "done"
    /\ LevelRank(Given[2]) < LevelRank(Given[1])
    /\ ~FormatListed(Given[2]) /\ FormatListed(Given[1])
    /\ heap[Given[2]].stats.npts < heap[Given[1]].stats.npts
    /\ Members = <<Given[2]>>

\* C9: after construction two traces of the Collection whose networks are not
\* in NETWORKS_USING_LOCATION are in one Group exactly when network, station,
\* instrument code and free-field flag are equal.
C9_SameGroupIffSameKey ==
    pc = "done" =>
        \A i \in Indices(Members), j \in Indices(Members) :
            (/\ i # j
             /\ heap[Members[i]].stats.network \notin NETWORKS_USING_LOCATION
             /\ heap[Members[j]].stats.network \notin NETWORKS_USING_LOCATION)
            => (SameGroup(Members[i], Members[j])
                    <=> ClusterKey(Members[i]) = ClusterKey(Members[j]))

\* C9 happens: a Collection whose first and last trace share a Group (their
\* location codes differ) while the trace between them, of another
\* instrument, has a Group of its own.
C9_Witness ==
    /\ pc = "done"
    /\ Len(Members) = 3
    /\ \A i \in 1..3 : heap[Members[i]].stats.network \notin NETWORKS_USING_LOCATION
    /\ heap[Members[1]].stats.location # heap[Members[2]].stats.location
    /\ SameGroup(Members[1], Members[2]) /\ ~SameGroup(Members[1], Members[3])
    /\ Given[2] = Members[3]
    /\ heap[Members[3]].stats.station = heap[Members[1]].stats.station

\* The traces of the Collection in the cluster of t, their location codes,
\* and the Groups that hold them.
ClusterOf(t) == {Members[i] : i \in {j \in Indices(Members) :
                                        ClusterKey(Members[j]) = ClusterKey(t)}}
LocationsOf(ts) == {heap[t].stats.location : t \in ts}
GroupsOf(ts) == {k \in Indices(streams) : \E t \in ts : In(t, streams[k].traces)}

\* C10: after construction a cluster of a network in NETWORKS_USING_LOCATION
\* is held by one Group per distinct location code, each Group with one
\* location code; a cluster of any other network is one Group.
C10_OneGroupPerLocation ==
    pc = "done" =>
        \A i \in Indices(Members) :
            LET cluster == ClusterOf(Members[i])
            IN  IF heap[Members[i]].stats.network \in NETWORKS_USING_LOCATION
                THEN /\ Cardinality(GroupsOf(cluster))
                           = Cardinality(LocationsOf(cluster))
                     /\ \A k \in GroupsOf(cluster) :
                           Cardinality(LocationsOf(
                               {streams[k].traces[m] : m \in Indices(streams[k].traces)})) = 1
                ELSE Cardinality(GroupsOf(cluster)) = 1

\* C10 happens: three traces of an exception-set network, one station and
\* instrument, location codes x, y, x in input order, held by two Groups.
C10_Witness ==
    /\ pc = "done"
    /\ Len(Given) = 3 /\ Len(Members) = 3
    /\ \A i \in 1..3 : heap[Given[i]].stats.network \in NETWORKS_USING_LOCATION
    /\ Cardinality(ClusterOf(Given[1])) = 3
    /\ heap[Given[1]].stats.location = heap[Given[3]].stats.location
    /\ heap[Given[1]].stats.location # heap[Given[2]].stats.location
    /\ Len(streams) = 2

----------------------------------------------------------------------------
\* What the properties below read of one run of the Grouping Engine.

\* How many times x occurs in the list s.
Count(s, x) == Cardinality({i \in Indices(s) : s[i] = x})
\* The Groups that hold trace t.
GroupsWith(sts, t) == {k \in Indices(sts) : In(t, sts[k].traces)}
\* The traces fed to the run that has just ended, in order.
Fed == Flatten(before.streams, 1)
\* __group_by_net_sta_inst has just returned.
AfterGrouping == pc = "validate"
\* The members of a Group, each with the number of times the Group holds it.
MemberBag(st) == [t \in DOMAIN heap |-> Count(st.traces, t)]
\* Two lists of Groups hold the same Groups, whatever the order.
SameGroups(a, b) ==
    \A m \in {MemberBag(a[k]) : k \in Indices(a)}
            \cup {MemberBag(b[k]) : k \in Indices(b)} :
        Cardinality({k \in Indices(a) : MemberBag(a[k]) = m})
            = Cardinality({k \in Indices(b) : MemberBag(b[k]) = m})

\* C11: the Grouping Engine partitions what it is fed: every trace fed to it
\* is in exactly one Group of the output, once, no other trace is in the
\* output, and a trace that matches no other trace is a Group of size 1.
C11_GroupingPartitions ==
    AfterGrouping =>
        /\ \A t \in DOMAIN heap :
              IF In(t, Fed)
              THEN /\ Cardinality(GroupsWith(streams, t)) = 1
                   /\ Count(Members, t) = 1
              ELSE Count(Members, t) = 0
        /\ \A i \in Indices(Fed) :
              (\A j \in Indices(Fed) :
                    j # i => ClusterKey(Fed[j]) # ClusterKey(Fed[i]))
              => \E k \in Indices(streams) : streams[k].traces = <<Fed[i]>>

\* C11 happens: three traces were fed, the first and the last match each
\* other and the one between them matches neither; the output holds a Group
\* of two and a Group of one.
C11_Witness ==
    /\ AfterGrouping
    /\ Len(Fed) = 3
    /\ ClusterKey(Fed[1]) = ClusterKey(Fed[3])
    /\ ClusterKey(Fed[1]) # ClusterKey(Fed[2])
    /\ \E k \in Indices(streams) : streams[k].traces = <<Fed[2]>>
    /\ \E k \in Indices(streams) : Len(streams[k].traces) = 2

\* C12: the Grouping Engine run on the Groups it has just produced gives the
\* same Groups again: the same member sets, each as often, in whatever order.
C12_GroupingIdempotent ==
    AfterGrouping =>
        SameGroups(group_by_net_sta_inst(heap, streams).streams, streams)

\* C12 happens: the run regrouped its input (three traces in three streams
\* became two Groups, one of them split off by its location code), and a
\* second run over that output does not return the list it was given.
C12_Witness ==
    /\ AfterGrouping
    /\ Len(before.streams) = 3
    /\ Len(streams) = 2
    /\ Cardinality(LocationsOf({Members[i] : i \in Indices(Members)})) = 2
    /\ Cardinality({ClusterKey(Members[i]) : i \in Indices(Members)}) = 1
    /\ Members # Fed

----------------------------------------------------------------------------
\* What the properties below read of the Groups handed to the constructor.

\* The argument is a list of StationStreams.
InputIsStreams ==
    /\ input.is_list
    /\ \A k \in Indices(input.items) : input.items[k].type = "StationStream"
\* The identity of a Group: the key its traces share, and their location
\* code as well in a network of NETWORKS_USING_LOCATION.
Identity(st) ==
    <<ClusterKey(st.traces[1]),
      IF heap[st.traces[1]].stats.network \in NETWORKS_USING_LOCATION
      THEN heap[st.traces[1]].stats.location ELSE "">>
\* The members of each input Group share one identity, and no two input
\* Groups have the same identity.
InputIsGrouped ==
    /\ InputIsStreams
    /\ \A k \in Indices(input.items) :
          /\ Len(input.items[k].traces) > 0
          /\ \A i \in Indices(input.items[k].traces) :
                Identity(StationStream(<<input.items[k].traces[i]>>))
                    = Identity(input.items[k])
    /\ \A j \in Indices(input.items), k \in Indices(input.items) :
          j # k => Identity(input.items[j]) # Identity(input.items[k])
\* The label of a tagged stream.
Label(st) == st.tag[3]

\* C13: after the dedup and regroup phases of a construction from Groups of
\* distinct identities, the Group of the same identity as an input Group
\* that had a tag and parameters has that tag and those parameters, and the
\* tag and the parameters of every Group are those of the input Group of its
\* own identity, also when two Groups differ by location code only.
C13_MetadataRoundTrip ==
    (/\ pc \in {"validate", "done"}
     /\ config.handle_duplicates
     /\ InputIsGrouped)
    => \A k \in Indices(streams) :
          /\ \A j \in Indices(input.items) :
                (/\ Identity(input.items[j]) = Identity(streams[k])
                 /\ input.items[j].has_tag
                 /\ input.items[j].parameters # {})
                => /\ streams[k].has_tag
                   /\ streams[k].tag = input.items[j].tag
                   /\ streams[k].parameters = input.items[j].parameters
          /\ streams[k].parameters # {} =>
                \E j \in Indices(input.items) :
                    /\ Identity(input.items[j]) = Identity(streams[k])
                    /\ input.items[j].parameters = streams[k].parameters
          /\ streams[k].has_tag =>
                \E j \in Indices(input.items) :
                    /\ Identity(input.items[j]) = Identity(streams[k])
                    /\ input.items[j].has_tag
                    /\ input.items[j].tag = streams[k].tag

\* C14: a construction from a list of Groups of which two carry tags with
\* different labels does not complete: it raises GMProcessException, whether
\* or not regrouping merges the two Groups into one.
C14_DifferentLabelsRaise ==
    (/\ InputIsStreams
     /\ \E j \in Indices(input.items), k \in Indices(input.items) :
           /\ input.items[j].has_tag /\ input.items[k].has_tag
           /\ Label(input.items[j]) # Label(input.items[k]))
    => /\ pc # "done"
       /\ pc = "raised" => err = "GMProcessException"

\* C16: a construction whose argument is not a list, or is a list with an
\* element that is not a StationStream at any position, raises TypeError in
\* its first phase: the dedup and grouping phases never start, no trace is
\* touched, nothing is logged and self.streams is never assigned.
C16_BadInputRaisesTypeError ==
    ~InputIsStreams =>
        /\ pc \in {"start", "raised"}
        /\ pc = "raised" => err = "TypeError"
        /\ streams = <<>>
        /\ heap = before.heap
        /\ log = <<>>

\* C16 happens: a list whose first element is a StationStream and whose
\* second is not has raised TypeError.
C16_Witness ==
    /\ pc = "raised" /\ err = "TypeError"
    /\ input.is_list
    /\ Len(input.items) = 2
    /\ input.items[1].type = "StationStream"
    /\ input.items[2].type # "StationStream"

\* C17: no duplicate pair with a process level outside
\* process_level_preference is ever resolved: neither trace of such a pair
\* is logged as removed or kept as the preferred one, and once two ingested
\* traces with one id meet in the dedup loop with such a level, the
\* construction ends with the ValueError of the failed lookup.
C17_UnlistedLevelRaises ==
    /\ \A i \in Indices(log) : LevelListed(log[i].removed) /\ LevelListed(log[i].kept)
    /\ (/\ InputIsStreams
        /\ config.handle_duplicates
        /\ Len(Given) >= 2
        /\ free_field(heap, Given[1]) /\ free_field(heap, Given[2])
        /\ TraceId(heap, Given[1]) = TraceId(heap, Given[2])
        /\ ~LevelListed(Given[1]) \/ ~LevelListed(Given[2]))
       => /\ pc \in {"start", "dedup", "raised"}
          /\ pc = "raised" => err = "ValueError" /\ log = <<>>

\* C17 happens: the first two traces are copies of one channel, the second
\* at a level the preference list does not name; the construction raised
\* ValueError in the dedup phase and logged no removal.
C17_Witness ==
    /\ pc = "raised" /\ err = "ValueError"
    /\ Len(Given) >= 2
    /\ TraceId(heap, Given[1]) = TraceId(heap, Given[2])
    /\ LevelListed(Given[1]) /\ ~LevelListed(Given[2])
    /\ log = <<>>

----------------------------------------------------------------------------
\* What the properties below read of a call of select_colocated.

\* select_colocated was the last call; it has returned or raised.
ColocCalled == pc = "done" /\ call.op = "select_colocated"
ColocReturned == ColocCalled /\ call.ret.kind = "return"
\* The station and the instrument code of Group k.
NetSta(k) == <<heap[streams[k].traces[1]].stats.network,
               heap[streams[k].traces[1]].stats.station>>
InstCode(k) == <<heap[streams[k].traces[1]].stats.channel[1],
                 heap[streams[k].traces[1]].stats.channel[2]>>
\* The Groups of the station of Group k.
Station(k) == {j \in Indices(streams) : NetSta(j) = NetSta(k)}
\* The two-letter prefix of a pattern is the instrument code of Group k.
PatternMatches(pattern, k) == <<pattern[1], pattern[2]>> = InstCode(k)
\* The patterns of the call that match a Group of the station of Group k.
MatchingPatterns(k) ==
    {j \in Indices(call.args[1]) :
        \E m \in Station(k) : PatternMatches(call.args[1][j], m)}
\* Group k is the winner of its station: the first Group that the first
\* matching pattern matches.
IsWinner(k) ==
    /\ MatchingPatterns(k) # {}
    /\ LET first == CHOOSE j \in MatchingPatterns(k) :
                        \A i \in MatchingPatterns(k) : j <= i
       IN  /\ PatternMatches(call.args[1][first], k)
           /\ \A m \in Station(k) :
                 PatternMatches(call.args[1][first], m) => k <= m
\* The failure annotation of a trace.
Failed(h, t) == \E p \in h[t].parameters : p[1] = "failure"
FailureReason(h, t) == (CHOOSE p \in h[t].parameters : p[1] = "failure")[2].reason
\* No trace of the Collection had a failure annotation before the call.
AllPassedBefore ==
    \A i \in Indices(Members) : ~Failed(before.heap, Members[i])

\* C18: after select_colocated has returned on a Collection without
\* failures, in every station with more than one Group and a matching
\* pattern the winner (the Group matched by the first pattern of the list
\* that matches any Group of the station) has no failure annotation, and
\* every trace of every other Group of the station has the failure
\* annotation that names the winner's instrument code.
C18_WinnerPassesOthersFail ==
    (ColocReturned /\ AllPassedBefore) =>
        \A k \in Indices(streams) :
            (Cardinality(Station(k)) > 1 /\ IsWinner(k)) =>
                /\ \A i \in Indices(streams[k].traces) :
                      ~Failed(heap, streams[k].traces[i])
                /\ \A m \in Station(k) \ {k} :
                      \A i \in Indices(streams[m].traces) :
                          /\ Failed(heap, streams[m].traces[i])
                          /\ FailureReason(heap, streams[m].traces[i])
                                = <<"Colocated with", InstCode(k)>>

\* C19: a call of select_colocated changes no annotation of any trace of a
\* Group that is the only Group of its station.
C19_LoneGroupsUntouched ==
    ColocCalled =>
        \A k \in Indices(streams) :
            Cardinality(Station(k)) = 1 =>
                \A i \in Indices(streams[k].traces) :
                    heap[streams[k].traces[i]].parameters
                        = before.heap[streams[k].traces[i]].parameters

\* C20: a call of select_colocated, returning or raising, leaves self.streams
\* as it was (the same Groups in the same order with the same members, tags
\* and parameters) and changes of a trace nothing but its failure annotation
\* and the tag stamped into its stats.
C20_RemovesNothing ==
    ColocCalled =>
        /\ streams = before.streams
        /\ DOMAIN heap = DOMAIN before.heap
        /\ \A t \in DOMAIN heap :
              /\ [heap[t].stats EXCEPT !.tag = EmptyTag]
                    = [before.heap[t].stats EXCEPT !.tag = EmptyTag]
              /\ {p \in heap[t].parameters : p[1] # "failure"}
                    = {p \in before.heap[t].parameters : p[1] # "failure"}

\* C20 happens: a call has failed every trace of one Group of a station of
\* two Groups, and the Collection still holds both Groups.
C20_Witness ==
    /\ ColocReturned
    /\ Len(streams) = 2
    /\ Station(1) = {1, 2}
    /\ \A i \in Indices(streams[2].traces) :
          /\ ~Failed(before.heap, streams[2].traces[i])
          /\ Failed(heap, streams[2].traces[i])
    /\ \A i \in Indices(streams[1].traces) : ~Failed(heap, streams[1].traces[i])

\* The tags of the Groups of the Collection.
Tags == {streams[k].tag : k \in {j \in Indices(streams) : streams[j].has_tag}}

\* C15: in every state of a constructed Collection, after construction and
\* after any sequence of select_colocated, __setitem__, __delitem__ and pop,
\* its Groups carry at most one distinct tag.
C15_SingleTag == pc = "done" => Cardinality(Tags) <= 1

----------------------------------------------------------------------------
\* What the properties below read of the later stages of choose_preferred.

\* The two process levels are listed and have one index.
LevelTie(a, b) ==
    LevelListed(a) /\ LevelListed(b) /\ LevelRank(a) = LevelRank(b)
\* The two formats are listed and have one index.
FormatTie(a, b) ==
    FormatListed(a) /\ FormatListed(b) /\ FormatRank(a) = FormatRank(b)
\* The trace that sample count, then sampling rate, then argument order
\* prefer of a and b.
BySamples(a, b) ==
    IF heap[a].stats.npts > heap[b].stats.npts THEN a
    ELSE IF heap[b].stats.npts > heap[a].stats.npts THEN b
    ELSE IF heap[b].stats.sampling_rate > heap[a].stats.sampling_rate THEN b
    ELSE a
\* The trace that the start-time sentinel and the stages after it prefer.
ByStartTime(a, b) ==
    IF StartUnset(a) /\ ~StartUnset(b) THEN b
    ELSE IF ~StartUnset(a) /\ StartUnset(b) THEN a
    ELSE BySamples(a, b)

\* C26: when the two process levels have one index and a source format is
\* not in format_preference, choose_preferred returns the trace that the
\* remaining stages prefer: start-time sentinel, then sample count, then
\* sampling rate, then the first argument.
C26_UnlistedFormatSkipsStage ==
    (/\ ChooseCalled
     /\ LevelTie(call.args[1], call.args[2])
     /\ ~FormatListed(call.args[1]) \/ ~FormatListed(call.args[2]))
    => call.ret = Return(Ref(ByStartTime(call.args[1], call.args[2])))

\* C27: for two traces level on process level and on format, if exactly one
\* has the epoch-zero start time the other is returned, whatever the sample
\* counts and sampling rates; if both or neither have it the result is the
\* one that sample count, sampling rate and argument order prefer.
C27_SentinelLoses ==
    (/\ ChooseCalled
     /\ LevelTie(call.args[1], call.args[2])
     /\ FormatTie(call.args[1], call.args[2]))
    => IF StartUnset(call.args[1]) # StartUnset(call.args[2])
       THEN call.ret = Return(Ref(IF StartUnset(call.args[1])
                                  THEN call.args[2] ELSE call.args[1]))
       ELSE call.ret = Return(Ref(BySamples(call.args[1], call.args[2])))

\* C27 happens: the first argument has the epoch-zero start time, more
\* samples and a higher sampling rate than the second, and the second was
\* returned.
C27_Witness ==
    /\ ChooseCalled
    /\ LevelTie(call.args[1], call.args[2])
    /\ FormatTie(call.args[1], call.args[2])
    /\ StartUnset(call.args[1]) /\ ~StartUnset(call.args[2])
    /\ heap[call.args[1]].stats.npts > heap[call.args[2]].stats.npts
    /\ heap[call.args[1]].stats.sampling_rate > heap[call.args[2]].stats.sampling_rate
    /\ call.ret = Return(Ref(call.args[2]))

\* C28: for two traces level on process level, format and start-time
\* status, the one with strictly more samples is returned; with equal sample
\* counts the one with the strictly higher sampling rate; with those equal
\* too, the first argument.
C28_SamplesThenRateThenFirst ==
    LET a == call.args[1]
        b == call.args[2]
    IN  (/\ ChooseCalled
         /\ LevelTie(a, b)
         /\ FormatTie(a, b)
         /\ StartUnset(a) = StartUnset(b))
        => /\ heap[a].stats.npts > heap[b].stats.npts => call.ret = Return(Ref(a))
           /\ heap[a].stats.npts < heap[b].stats.npts => call.ret = Return(Ref(b))
           /\ heap[a].stats.npts = heap[b].stats.npts =>
                 /\ heap[a].stats.sampling_rate > heap[b].stats.sampling_rate
                       => call.ret = Return(Ref(a))
                 /\ heap[a].stats.sampling_rate < heap[b].stats.sampling_rate
                       => call.ret = Return(Ref(b))
                 /\ heap[a].stats.sampling_rate = heap[b].stats.sampling_rate
                       => call.ret = Return(Ref(a))

\* C28 happens: two different traces level at every stage, and the call
\* returned its first argument.
C28_Witness ==
    /\ ChooseCalled
    /\ call.args[1] # call.args[2]
    /\ FullTie(call.args[1], call.args[2])
    /\ call.ret = Return(Ref(call.args[1]))

\* C29: a call of are_duplicates on two traces with different ids, one of
\* them without coordinates, ends in the error of the distance computation,
\* also when station, location or channel differ, and changes no trace; on
\* two traces with one id it returns True, with or without coordinates.
C29_MissingCoordinatesRaise ==
    DupCalled =>
        /\ heap = before.heap
        /\ IF TraceId(heap, call.args[1]) = TraceId(heap, call.args[2])
           THEN call.ret = Return(TRUE)
           ELSE HasNone(heap, call.args[1], call.args[2])
                    => call.ret.kind = "raise" /\ call.ret.exc = "TypeError"

\* C29 happens: two traces of different stations and channels, the second
\* without coordinates; the call raised.
C29_Witness ==
    /\ DupCalled
    /\ heap[call.args[1]].stats.station # heap[call.args[2]].stats.station
    /\ heap[call.args[1]].stats.channel # heap[call.args[2]].stats.channel
    /\ heap[call.args[1]].stats.coordinates.valid = "ok"
    /\ heap[call.args[2]].stats.coordinates.valid = "None"
    /\ call.ret.kind = "raise"

----------------------------------------------------------------------------
\* What the properties below read of the first two phases of a construction.

\* The first phase has returned: self.streams is assigned.
Ingested == pc \in {"dedup", "group", "validate", "done"}
\* Trace t of the input is not in the Collection.
Removed(t) == In(t, Given) /\ ~In(t, Members)

\* C24: from the first phase of a construction with drop_non_free on, no
\* trace of any Group of the Collection is non-free-field, also when a
\* stream of the input holds free-field and non-free-field traces.
C24_NoNonFreeTrace ==
    (Ingested /\ config.drop_non_free) =>
        \A i \in Indices(Members) : free_field(heap, Members[i])

\* C30: when the dedup phase has returned, every trace it removed is a
\* duplicate, at the tolerance of the construction, of a trace it kept, also
\* when the trace that evicted it was evicted itself.
C30_RemovedHasSurvivingDuplicate ==
    AfterDedup =>
        \A i \in Indices(Fed) :
            ~In(Fed[i], Members) =>
                \E j \in Indices(Members) :
                    are_duplicates(heap, Fed[i], Members[j],
                                   config.max_dist_tolerance) = Return(TRUE)

----------------------------------------------------------------------------
\* What the properties below read of the reasons select_colocated gives.

NoMatchReason == <<"No instruments match", <<>> >>
ColocatedReason(inst) == <<"Colocated with", inst>>

\* C21: after select_colocated has returned, in every station with more than
\* one Group of which no pattern of the preference list matches any, every
\* trace of every Group has the failure annotation with the reason "no
\* instruments match", which is not a "colocated with" reason.
C21_NoMatchFailsAll ==
    ColocReturned =>
        \A k \in Indices(streams) :
            (Cardinality(Station(k)) > 1 /\ MatchingPatterns(k) = {}) =>
                \A i \in Indices(streams[k].traces) :
                    /\ Failed(heap, streams[k].traces[i])
                    /\ FailureReason(heap, streams[k].traces[i]) = NoMatchReason
                    /\ \A m \in Indices(streams) :
                          NoMatchReason # ColocatedReason(InstCode(m))

\* C22: a call of select_colocated keeps every annotation a trace had before
\* the call with the value it had: a failure annotation of an earlier call
\* is still there, with its reason.
C22_AnnotationsAdditive ==
    ColocCalled =>
        \A t \in DOMAIN before.heap :
            \A p \in before.heap[t].parameters : p \in heap[t].parameters

----------------------------------------------------------------------------
\* What the properties below read of two Collections.

\* The traces reachable through a list of Groups.
Reachable(sts) == {Flatten(sts, 1)[i] : i \in Indices(Flatten(sts, 1))}
\* tr.fail was the last call, on a trace reached through one of the two
\* Collections.
FailCalled == pc = "done" /\ call.op = "fail"
\* The Groups of the Collection the failed trace was not reached through.
OtherCollection == IF call.args[1] = "self" THEN returned.streams ELSE streams

\* C23: once copy, select, append or + has returned a Collection, marking a
\* trace failed through that Collection or through the one it was obtained
\* from changes the annotations of no trace reachable through the other.
C23_NoSharedState ==
    (FailCalled /\ returned.made) =>
        \A t \in Reachable(OtherCollection) :
            heap[t].parameters = before.heap[t].parameters

\* C25: after append(stream) has returned, the Groups of the Collection it
\* was called on hold every trace of the stream that is free-field and a
\* duplicate of no trace the Collection held.
C25_AppendExtendsReceiver ==
    (pc = "done" /\ call.op = "append" /\ call.ret.kind = "return") =>
        \A t \in Reachable(<<call.args[1]>>) :
            (/\ free_field(heap, t)
             /\ \A m \in Reachable(before.streams) :
                   are_duplicates(heap, t, m, get_config.max_dist_tolerance)
                       # Return(TRUE))
            => In(t, Members)

=============================================================================
